---- MODULE Spec2Model ----
(***************************************************************************)
(* A model of circuits/core.py: the Manager (channel registry, handler     *)
(* set, event queue, push / flush / send) and the Component registration   *)
(* tree (register / unregister and the + += - operators).                  *)
(*                                                                         *)
(* Representation.                                                         *)
(*  - A channel string is a tuple of its ":"-separated parts: "x" is       *)
(*    <<"x">>, "a:x" is <<"a", "x">>, "*" is <<"*">>.  The names used here *)
(*    hold no ":" themselves, so s.split(":", 1) is the tuple's parts.     *)
(*  - Python's None is PyNone where a string is expected (a target, a      *)
(*    component's channel) and NoChannel where a channel string is         *)
(*    expected (the channel=None default of add and remove).               *)
(*  - A defaultdict(list) is a function whose DOMAIN is the set of keys    *)
(*    the dict holds; reading a missing key creates it (Touch).            *)
(*  - Every operation is a pure operator from a world (the four fields of  *)
(*    every object) to the SET of its possible outcomes: the world after,  *)
(*    the log of what it did, and the exception it ended in ("" if none).  *)
(*    The set has more than one member only where Python leaves an         *)
(*    iteration order open (a set, the keys of a dict).                    *)
(***************************************************************************)
EXTENDS Integers, Sequences, FiniteSets, TLC

VARIABLES manager, _handlers, channels, _queue, last

vars == <<manager, _handlers, channels, _queue, last>>

(***************************************************************************)
(* Bounds                                                                  *)
(***************************************************************************)
\* Most events pending at once, all queues together.
MaxQueue == 3

(***************************************************************************)
(* Values                                                                  *)
(***************************************************************************)
PyNone == "<None>"
NoChannel == <<>>
STAR == <<"*">>

\* "%s" % v
Str(v) == IF v = PyNone THEN "None" ELSE v

\* "%s:%s" % (target, channel), for a channel string without ":".
Fmt(target, channel) == <<Str(target), channel[1]>>

\* ":" in s
HasColon(s) == Len(s) = 2

\* The objects: M is a plain Manager, A and B are Components.  A has two
\* tagged methods (Af, Ax below), B has none.
Objs == {"M", "A", "B"}
Components == {"A", "B"}

\* Component.channel of each component (the class attribute or the kwarg).
ComponentChannel == [A |-> "a", B |-> PyNone]

(***************************************************************************)
(* Handlers: what @listener attaches (type, channels), the object whose    *)
(* method it is (owner, PyNone for a plain function), and what the body    *)
(* does when called: return a truthy or a falsy value, push an event onto  *)
(* its owner (M for a function) and return None, or raise.                 *)
(***************************************************************************)
HandlerDef ==
    [ f1   |-> [type |-> "filter",   channels |-> <<>>, owner |-> PyNone, does |-> "true"],
      f2   |-> [type |-> "filter",   channels |-> <<>>, owner |-> PyNone, does |-> "false"],
      l1   |-> [type |-> "listener", channels |-> <<>>, owner |-> PyNone, does |-> "true"],
      l2   |-> [type |-> "listener", channels |-> <<>>, owner |-> PyNone, does |-> "false"],
      lp   |-> [type |-> "listener", channels |-> <<>>, owner |-> PyNone, does |-> "push"],
      lr   |-> [type |-> "listener", channels |-> <<>>, owner |-> PyNone, does |-> "raise"],
      plain |-> [type |-> PyNone,    channels |-> <<>>, owner |-> PyNone, does |-> "false"],
      Ax   |-> [type |-> "listener", channels |-> <<"x">>, owner |-> "A", does |-> "false"],
      Af   |-> [type |-> "filter",   channels |-> <<>>, owner |-> "A", does |-> "false"] ]

Handlers == DOMAIN HandlerDef

\* The event a pushing handler pushes, and the channel it pushes it on.
PushedEvent == [name |-> "pushed", channel |-> PyNone, target |-> PyNone]
PushedChannel == <<"x">>

(***************************************************************************)
(* Sequences                                                               *)
(***************************************************************************)
InSeq(h, s) == \E i \in 1..Len(s) : s[i] = h

\* list.remove(h): the first occurrence goes.
RemoveFirst(s, h) ==
    LET i == CHOOSE j \in 1..Len(s) : s[j] = h /\ \A k \in 1..(j-1) : s[k] # h
    IN  SubSeq(s, 1, i-1) \o SubSeq(s, i+1, Len(s))

\* Every order in which the members of S can be iterated.
RECURSIVE Orders(_)
Orders(S) ==
    IF S = {} THEN {<<>>}
    ELSE UNION {{<<x>> \o o : o \in Orders(S \ {x})} : x \in S}

RECURSIVE Flatten(_)
Flatten(ss) == IF ss = <<>> THEN <<>> ELSE Head(ss) \o Flatten(Tail(ss))

(***************************************************************************)
(* defaultdict(list)                                                       *)
(***************************************************************************)
\* d[k] as a value
Get(d, k) == IF k \in DOMAIN d THEN d[k] ELSE <<>>

\* d[k] as an effect: the missing key is created with an empty list
Touch(d, k) == IF k \in DOMAIN d THEN d ELSE [x \in DOMAIN d \cup {k} |-> IF x = k THEN <<>> ELSE d[x]]

\* d[k] = v
Put(d, k, v) == [x \in DOMAIN d \cup {k} |-> IF x = k THEN v ELSE d[x]]

EmptyDict == [x \in {} |-> <<>>]

(***************************************************************************)
(* The world: every object's fields.                                       *)
(***************************************************************************)
World == [manager |-> manager, _handlers |-> _handlers, channels |-> channels, _queue |-> _queue]

Outcome(w, log, exc) == [w |-> w, log |-> log, exc |-> exc]

(***************************************************************************)
(* Manager.add                                                             *)
(***************************************************************************)
\* Faulty variant of SortByType: the list is left as appended to.
SortByTypeUnsorted(s) == s

\* list.sort(key=lambda x: x.type): stable, and "filter" < "listener".
SortByType(s) ==
    SelectSeq(s, LAMBDA h : HandlerDef[h].type = "filter")
        \o SelectSeq(s, LAMBDA h : HandlerDef[h].type # "filter")

\* Faulty variant of add: the handler enters the handler set before its type
\* is looked at.
addBeforeCheck(w, self, handler, channel) ==
    IF HandlerDef[handler].type \notin {"filter", "listener"}
    THEN Outcome([w EXCEPT !._handlers[self] = @ \cup {handler}], <<>>, "InvalidHandler")
    ELSE LET hs == w._handlers[self] \cup {handler}
             c  == IF channel = NoChannel THEN STAR ELSE channel
             d  == w.channels[self]
             d2 == IF c \in DOMAIN d
                   THEN IF ~InSeq(handler, d[c])
                        THEN [d EXCEPT ![c] = SortByType(Append(d[c], handler))]
                        ELSE d
                   ELSE Put(d, c, <<handler>>)
         IN  Outcome([w EXCEPT !._handlers[self] = hs, !.channels[self] = d2],
                     <<[k |-> "add", at |-> self, h |-> handler, key |-> c]>>, "")

add(w, self, handler, channel) ==
    IF HandlerDef[handler].type \notin {"filter", "listener"}
    THEN Outcome(w, <<>>, "InvalidHandler")
    ELSE
      LET hs == w._handlers[self] \cup {handler}
          c  == IF channel = NoChannel THEN STAR ELSE channel
          d  == w.channels[self]
          d2 == IF c \in DOMAIN d
                THEN IF ~InSeq(handler, d[c])
                     THEN [d EXCEPT ![c] = SortByType(Append(d[c], handler))]
                     ELSE d
                ELSE Put(d, c, <<handler>>)
      IN  Outcome([w EXCEPT !._handlers[self] = hs, !.channels[self] = d2],
                  <<[k |-> "add", at |-> self, h |-> handler, key |-> c]>>, "")

(***************************************************************************)
(* Manager.remove                                                          *)
(***************************************************************************)
\* Faulty variant of remove: without a channel the handler is taken from the
\* "*" list only, and the other lists keep it.
removeGlobalOnly(w, self, handler, channel) ==
    LET d0   == w.channels[self]
        keys == IF channel = NoChannel THEN {STAR} ELSE {channel}
        hs   == w._handlers[self] \ {handler}
        d2   == [x \in DOMAIN d0 \cup keys |->
                   IF x \in keys /\ InSeq(handler, Get(d0, x))
                   THEN RemoveFirst(d0[x], handler)
                   ELSE Get(d0, x)]
    IN  Outcome([w EXCEPT !._handlers[self] = hs, !.channels[self] = d2],
                <<[k |-> "remove", at |-> self, h |-> handler]>>, "")

remove(w, self, handler, channel) ==
    LET d0   == w.channels[self]
        \* channel is None: self.channels["*"] is read (and created), then keys()
        d1   == IF channel = NoChannel
                THEN LET t == Touch(d0, STAR)
                     IN  IF InSeq(handler, t[STAR])
                         THEN [t EXCEPT ![STAR] = RemoveFirst(t[STAR], handler)]
                         ELSE t
                ELSE d0
        keys == IF channel = NoChannel THEN DOMAIN d1 ELSE {channel}
        hs   == w._handlers[self] \ {handler}
        \* each key of keys is read (and created), the handler removed where it is
        d2   == [x \in DOMAIN d1 \cup keys |->
                   IF x \in keys /\ InSeq(handler, Get(d1, x))
                   THEN RemoveFirst(d1[x], handler)
                   ELSE Get(d1, x)]
    IN  Outcome([w EXCEPT !._handlers[self] = hs, !.channels[self] = d2],
                <<[k |-> "remove", at |-> self, h |-> handler]>>, "")

(***************************************************************************)
(* Manager.handlers                                                        *)
(***************************************************************************)
\* Faulty variant of handlers: with a concrete target and channel, the channel's own
\* lists are yielded before the "*" list.
handlersGlobalsLast(d0, hs, s) ==
    LET target  == IF HasColon(s) THEN s[1] ELSE PyNone
        channel == IF HasColon(s) THEN s[2] ELSE s[1]
        d1      == Touch(d0, STAR)
        globals == d1[STAR]
        Lists(o) == Flatten([i \in 1..Len(o) |-> d1[o[i]]])
    IN  IF target = "*" /\ channel = "*"
        THEN {[seq |-> o, d |-> d1] : o \in Orders(hs)}
        ELSE IF target = "*"
        THEN LET ks == {k \in DOMAIN d1 :
                           k = <<channel>> \/ (HasColon(k) /\ k[2] = channel)}
             IN  {[seq |-> globals \o Lists(o), d |-> d1] : o \in Orders(ks)}
        ELSE IF channel = "*"
        THEN LET ks == {k \in DOMAIN d1 :
                           (HasColon(k) /\ k[1] = Str(target)) \/ ~HasColon(k)}
             IN  {[seq |-> globals \o Lists(o), d |-> d1] : o \in Orders(ks)}
        ELSE LET tstar == <<Str(target), "*">>
                 d2    == Touch(Touch(d1, tstar), s)
             IN  {[seq |-> d2[tstar] \o d2[s] \o globals, d |-> d2]}

\* Faulty variant of handlers: with a concrete target and channel, a handler
\* of the channel's list that an earlier list already yielded is left out.
handlersDeduplicated(d0, hs, s) ==
    LET target  == IF HasColon(s) THEN s[1] ELSE PyNone
        channel == IF HasColon(s) THEN s[2] ELSE s[1]
        d1      == Touch(d0, STAR)
        globals == d1[STAR]
        Lists(o) == Flatten([i \in 1..Len(o) |-> d1[o[i]]])
    IN  IF target = "*" /\ channel = "*"
        THEN {[seq |-> o, d |-> d1] : o \in Orders(hs)}
        ELSE IF target = "*"
        THEN LET ks == {k \in DOMAIN d1 :
                           k = <<channel>> \/ (HasColon(k) /\ k[2] = channel)}
             IN  {[seq |-> globals \o Lists(o), d |-> d1] : o \in Orders(ks)}
        ELSE IF channel = "*"
        THEN LET ks == {k \in DOMAIN d1 :
                           (HasColon(k) /\ k[1] = Str(target)) \/ ~HasColon(k)}
             IN  {[seq |-> globals \o Lists(o), d |-> d1] : o \in Orders(ks)}
        ELSE LET tstar == <<Str(target), "*">>
                 d2    == Touch(Touch(d1, tstar), s)
                 head  == globals \o d2[tstar]
             IN  {[seq |-> head \o SelectSeq(d2[s], LAMBDA h : ~InSeq(h, head)),
                   d |-> d2]}

\* Faulty variant of handlers: "*:c" matches only the keys with a target,
\* not the plain key c.
handlersTargetedOnly(d0, hs, s) ==
    LET target  == IF HasColon(s) THEN s[1] ELSE PyNone
        channel == IF HasColon(s) THEN s[2] ELSE s[1]
        d1      == Touch(d0, STAR)
        globals == d1[STAR]
        Lists(o) == Flatten([i \in 1..Len(o) |-> d1[o[i]]])
    IN  IF target = "*" /\ channel = "*"
        THEN {[seq |-> o, d |-> d1] : o \in Orders(hs)}
        ELSE IF target = "*"
        THEN LET ks == {k \in DOMAIN d1 : HasColon(k) /\ k[2] = channel}
             IN  {[seq |-> globals \o Lists(o), d |-> d1] : o \in Orders(ks)}
        ELSE IF channel = "*"
        THEN LET ks == {k \in DOMAIN d1 :
                           (HasColon(k) /\ k[1] = Str(target)) \/ ~HasColon(k)}
             IN  {[seq |-> globals \o Lists(o), d |-> d1] : o \in Orders(ks)}
        ELSE LET tstar == <<Str(target), "*">>
                 d2    == Touch(Touch(d1, tstar), s)
             IN  {[seq |-> globals \o d2[tstar] \o d2[s], d |-> d2]}

\* The possible results of self.handlers(s): the handler sequence the
\* returned iterable yields, and self.channels after the reads that create
\* missing keys.  "*:*" returns the set self._handlers, iterated in any order;
\* the wildcard branches iterate the dict's keys, in any order.
handlers(d0, hs, s) ==
    LET target  == IF HasColon(s) THEN s[1] ELSE PyNone
        channel == IF HasColon(s) THEN s[2] ELSE s[1]
        d1      == Touch(d0, STAR)
        globals == d1[STAR]
        Lists(o) == Flatten([i \in 1..Len(o) |-> d1[o[i]]])
    IN  IF target = "*" /\ channel = "*"
        THEN {[seq |-> o, d |-> d1] : o \in Orders(hs)}
        ELSE IF target = "*"
        THEN LET ks == {k \in DOMAIN d1 :
                           k = <<channel>> \/ (HasColon(k) /\ k[2] = channel)}
             IN  {[seq |-> globals \o Lists(o), d |-> d1] : o \in Orders(ks)}
        ELSE IF channel = "*"
        THEN LET ks == {k \in DOMAIN d1 :
                           (HasColon(k) /\ k[1] = Str(target)) \/ ~HasColon(k)}
             IN  {[seq |-> globals \o Lists(o), d |-> d1] : o \in Orders(ks)}
        ELSE LET tstar == <<Str(target), "*">>
                 d2    == Touch(Touch(d1, tstar), s)
             IN  {[seq |-> globals \o d2[tstar] \o d2[s], d |-> d2]}

(***************************************************************************)
(* Delegation to the root                                                  *)
(***************************************************************************)
Overflow == "<recursion>"

\* push, flush and send each start with
\*     if self.manager == self: <body>  else: self.manager.<op>(...)
\* root is the object whose body runs.  A chain of manager references that
\* visits an object twice never reaches one: the calls recurse until Python
\* raises "maximum recursion depth exceeded" (Overflow).
RECURSIVE rootFrom(_, _, _)
rootFrom(mgr, self, seen) ==
    IF mgr[self] = self THEN self
    ELSE IF mgr[self] \in seen THEN Overflow
    ELSE rootFrom(mgr, mgr[self], seen \cup {mgr[self]})

\* Faulty variant of root: no delegation, the body runs on the object called.
rootSelf(mgr, self) == self

root(mgr, self) == rootFrom(mgr, self, {self})

(***************************************************************************)
(* Manager.push                                                            *)
(***************************************************************************)
push(w, self, event, channel, target) ==
    LET r == root(w.manager, self)
    IN  IF r = Overflow
        THEN Outcome(w, <<>>, "RuntimeError")
        ELSE LET ev == [event EXCEPT !.channel = channel, !.target = target]
             IN  Outcome([w EXCEPT !._queue[r] = Append(@, ev)],
                         <<[k |-> "push", at |-> r, ev |-> ev]>>, "")

(***************************************************************************)
(* Manager.send                                                            *)
(***************************************************************************)
\* The object a pushing handler calls push on.
Pusher(h) == IF HandlerDef[h].owner = PyNone THEN "M" ELSE HandlerDef[h].owner

\* One handler call: what it returns (ret: truthy or not), what it did.  The
\* arguments send passes, chosen from the handler's signature, decide nothing
\* here: what a handler does is fixed by HandlerDef.  No handler changes the
\* registry, so the lists handlers() chains are the same from the first call
\* of a send to its last.
call(w, h) ==
    LET does  == HandlerDef[h].does
        entry == <<[k |-> "call", h |-> h, ret |-> (does = "true"), raised |-> (does = "raise")]>>
    IN  IF does = "raise"
        THEN [w |-> w, log |-> entry, exc |-> "HandlerError", ret |-> FALSE]
        ELSE IF does = "push"
        THEN LET o == push(w, Pusher(h), PushedEvent, PushedChannel, PyNone)
             IN  [w |-> o.w, log |-> entry \o o.log, exc |-> o.exc, ret |-> FALSE]
        ELSE [w |-> w, log |-> entry, exc |-> "", ret |-> (does = "true")]

\* Faulty variant of dispatch: any truthy return stops the send, whatever the type.
RECURSIVE dispatchAnyTruthy(_, _, _, _)
dispatchAnyTruthy(w, seq, i, log) ==
    IF i > Len(seq)
    THEN Outcome(w, log, "")
    ELSE LET r == call(w, seq[i])
         IN  IF r.exc # ""
             THEN Outcome(r.w, log \o r.log, r.exc)
             ELSE IF r.ret
             THEN Outcome(r.w, log \o r.log, "")
             ELSE dispatchAnyTruthy(r.w, seq, i + 1, log \o r.log)

\* for handler in self.handlers(channel): ... if filter and handler.type == "filter": break
RECURSIVE dispatch(_, _, _, _)
dispatch(w, seq, i, log) ==
    IF i > Len(seq)
    THEN Outcome(w, log, "")
    ELSE LET r == call(w, seq[i])
         IN  IF r.exc # ""
             THEN Outcome(r.w, log \o r.log, r.exc)
             ELSE IF r.ret /\ HandlerDef[seq[i]].type = "filter"
             THEN Outcome(r.w, log \o r.log, "")
             ELSE dispatch(r.w, seq, i + 1, log \o r.log)

send(w, self, event, channel, target) ==
    LET r == root(w.manager, self)
    IN  IF r = Overflow
        THEN {Outcome(w, <<>>, "RuntimeError")}
        ELSE LET ev  == [event EXCEPT !.channel = channel, !.target = target]
                 key == IF target # PyNone THEN Fmt(target, channel) ELSE channel
             IN  {dispatch([w EXCEPT !.channels[r] = res.d], res.seq, 1,
                           <<[k |-> "send", at |-> r, ev |-> ev, key |-> key,
                              seq |-> res.seq]>>) :
                    res \in handlers(w.channels[r], w._handlers[r], key)}

(***************************************************************************)
(* Manager.flush                                                           *)
(***************************************************************************)
\* Faulty variant of drain: q.popleft(), the oldest event first.
RECURSIVE drainFifo(_, _, _, _)
drainFifo(w, self, q, log) ==
    IF q = <<>>
    THEN {Outcome(w, log, "")}
    ELSE UNION {IF o.exc # ""
                THEN {Outcome(o.w, log \o o.log, o.exc)}
                ELSE drainFifo(o.w, self, Tail(q), log \o o.log) :
                  o \in send(w, self, Head(q), Head(q).channel, Head(q).target)}

\* Faulty variant of drain: when a handler raises, the events not yet sent go
\* back to the head of the queue.
RECURSIVE drainRequeue(_, _, _, _)
drainRequeue(w, self, q, log) ==
    IF q = <<>>
    THEN {Outcome(w, log, "")}
    ELSE LET event == q[Len(q)]
             rest  == SubSeq(q, 1, Len(q) - 1)
         IN  UNION {IF o.exc # ""
                    THEN {Outcome([o.w EXCEPT !._queue[self] = rest \o @],
                                  log \o o.log, o.exc)}
                    ELSE drainRequeue(o.w, self, rest, log \o o.log) :
                      o \in send(w, self, event, event.channel, event.target)}

\* while q: event = q.pop(); self.send(event, event.channel, event.target)
RECURSIVE drain(_, _, _, _)
drain(w, self, q, log) ==
    IF q = <<>>
    THEN {Outcome(w, log, "")}
    ELSE LET event == q[Len(q)]
             rest  == SubSeq(q, 1, Len(q) - 1)
         IN  UNION {IF o.exc # ""
                    THEN {Outcome(o.w, log \o o.log, o.exc)}
                    ELSE drain(o.w, self, rest, log \o o.log) :
                      o \in send(w, self, event, event.channel, event.target)}

\* Faulty variant of flush: the queue is walked without being replaced by an
\* empty one first.
flushNoSwap(w, self) ==
    LET r == root(w.manager, self)
    IN  IF r = Overflow
        THEN {Outcome(w, <<>>, "RuntimeError")}
        ELSE drain(w, r, w._queue[r], <<>>)

\* q = self._queue; self._queue = deque(); then the loop over q
flush(w, self) ==
    LET r == root(w.manager, self)
    IN  IF r = Overflow
        THEN {Outcome(w, <<>>, "RuntimeError")}
        ELSE drain([w EXCEPT !._queue[r] = <<>>], r, w._queue[r], <<>>)

(***************************************************************************)
(* Component.register, Component.unregister                                *)
(***************************************************************************)
\* [x[1] for x in getmembers(self) if callable(x[1]) and hasattr(x[1], "type")]:
\* the tagged methods, in getmembers' order (by name).
TaggedHandlers == [M |-> <<>>, A |-> <<"Af", "Ax">>, B |-> <<>>]

Registered == [name |-> "Registered", channel |-> PyNone, target |-> PyNone]

\* The (handler, channel) pairs register adds, in order.
RegisterAdds(self) ==
    LET Chans(h) == IF HandlerDef[h].channels # <<>> THEN HandlerDef[h].channels ELSE <<"*">>
        Key(c)   == IF ComponentChannel[self] # PyNone
                    THEN Fmt(ComponentChannel[self], <<c>>)
                    ELSE <<c>>
        Of(h)    == [i \in 1..Len(Chans(h)) |-> <<h, Key(Chans(h)[i])>>]
    IN  Flatten([i \in 1..Len(TaggedHandlers[self]) |-> Of(TaggedHandlers[self][i])])

RECURSIVE addAll(_, _, _, _, _)
addAll(w, mgr, pairs, i, log) ==
    IF i > Len(pairs)
    THEN Outcome(w, log, "")
    ELSE LET o == add(w, mgr, pairs[i][1], pairs[i][2])
         IN  IF o.exc # "" THEN Outcome(o.w, log \o o.log, o.exc)
             ELSE addAll(o.w, mgr, pairs, i + 1, log \o o.log)

register(w, self, mgr) ==
    IF self \notin Components
    THEN {Outcome(w, <<>>, "AttributeError")}
    ELSE LET a == addAll(w, mgr, RegisterAdds(self), 1, <<>>)
             Done(o) == Outcome([o.w EXCEPT !.manager[self] = mgr], o.log, "")
         IN  IF a.exc # "" THEN {a}
             ELSE IF mgr # self
             THEN {IF s.exc # ""
                   THEN Outcome(s.w, a.log \o s.log, s.exc)
                   ELSE Done(Outcome(s.w, a.log \o s.log, "")) :
                     s \in send(a.w, mgr, Registered, <<"registered">>, ComponentChannel[self])}
             ELSE {Done(a)}

\* for handler in self._handlers.copy(): self.manager.remove(handler)
\* (the world after does not depend on the order the set is iterated in; the
\* log lists the removals in one order)
RECURSIVE removeAll(_, _, _, _)
removeAll(w, mgr, hs, log) ==
    IF hs = {}
    THEN Outcome(w, log, "")
    ELSE LET h == CHOOSE x \in hs : TRUE
             o == remove(w, mgr, h, NoChannel)
         IN  removeAll(o.w, mgr, hs \ {h}, log \o o.log)

unregister(w, self) ==
    IF self \notin Components
    THEN Outcome(w, <<>>, "AttributeError")
    ELSE LET o == removeAll(w, w.manager[self], w._handlers[self], <<>>)
         IN  Outcome([o.w EXCEPT !.manager[self] = self], o.log, "")

(***************************************************************************)
(* The state machine                                                       *)
(***************************************************************************)
\* Manager.__init__ of every object.
Blank ==
    [manager   |-> [o \in Objs |-> o],
     _handlers |-> [o \in Objs |-> {}],
     channels  |-> [o \in Objs |-> EmptyDict],
     _queue    |-> [o \in Objs |-> <<>>]]

\* Component.__init__ of A and of B: self.register(self).
Constructed ==
    {b.w : b \in UNION {register(a.w, "B", "B") : a \in register(Blank, "A", "A")}}

Init ==
    \E w \in Constructed :
        /\ manager = w.manager
        /\ _handlers = w._handlers
        /\ channels = w.channels
        /\ _queue = w._queue
        /\ last = [op |-> "init", self |-> PyNone, args |-> <<>>, log |-> <<>>, exc |-> ""]

RECURSIVE PendingOf(_, _)
PendingOf(q, S) ==
    IF S = {} THEN 0
    ELSE LET x == CHOOSE y \in S : TRUE IN Len(q[x]) + PendingOf(q, S \ {x})

Pending(q) == PendingOf(q, Objs)

\* The call op(args) on self ended as outcome o.
Becomes(op, self, args, o) ==
    /\ Pending(o.w._queue) <= MaxQueue
    /\ manager' = o.w.manager
    /\ _handlers' = o.w._handlers
    /\ channels' = o.w.channels
    /\ _queue' = o.w._queue
    /\ last' = [op |-> op, self |-> self, args |-> args, log |-> o.log, exc |-> o.exc]

Add(self, h, c) == Becomes("add", self, <<h, c>>, add(World, self, h, c))

Remove(self, h, c) == Becomes("remove", self, <<h, c>>, remove(World, self, h, c))

\* A call of self.handlers(s), iterated to its end: the log holds what it yields.
HandlersOf(self, s) ==
    \E res \in handlers(channels[self], _handlers[self], s) :
        Becomes("handlers", self, <<s>>,
                Outcome([World EXCEPT !.channels[self] = res.d],
                        <<[k |-> "yield", seq |-> res.seq]>>, ""))

Push(self, e, c, t) == Becomes("push", self, <<e, c, t>>, push(World, self, e, c, t))

Flush(self) == \E o \in flush(World, self) : Becomes("flush", self, <<>>, o)

Send(self, e, c, t) ==
    \E o \in send(World, self, e, c, t) : Becomes("send", self, <<e, c, t>>, o)

Register(self, m) ==
    \E o \in register(World, self, m) : Becomes("register", self, <<m>>, o)

Unregister(self) == Becomes("unregister", self, <<>>, unregister(World, self))

\* x + y: y.register(x.manager)
Plus(x, y) ==
    \E o \in register(World, y, manager[x]) : Becomes("__add__", x, <<y>>, o)

\* x += y: y.register(x.manager)
IPlus(x, y) ==
    \E o \in register(World, y, manager[x]) : Becomes("__iadd__", x, <<y>>, o)

\* x - y: y.unregister()
Minus(x, y) == Becomes("__sub__", x, <<y>>, unregister(World, y))

\* An event as its caller constructs it.
Event(name) == [name |-> name, channel |-> PyNone, target |-> PyNone]

(***************************************************************************)
(* SpecReg: add, remove and handlers on the manager M.                     *)
(***************************************************************************)
RegHandlers == {"f1", "f2", "l1", "l2"}
RegChannels == {NoChannel, <<"x">>}
\* Resolution strings: bare, "target:channel", "*:channel", "target:*", "*:*".
RegStrings == {<<"*">>, <<"x">>, <<"a", "x">>, <<"*", "x">>, <<"a", "*">>, <<"*", "*">>}
RegQueries == {<<"x">>, <<"*", "x">>}

NextReg ==
    \/ \E h \in RegHandlers, c \in RegChannels : Add("M", h, c)
    \/ \E h \in RegHandlers, c \in RegChannels : Remove("M", h, c)
    \/ \E s \in RegQueries : HandlersOf("M", s)

SpecReg == Init /\ [][NextReg]_vars

(***************************************************************************)
(* SpecTree: register, unregister and the operators + += - on every        *)
(* object.                                                                 *)
(***************************************************************************)
NextTree ==
    \/ \E c \in Components, m \in Objs : Register(c, m)
    \/ \E c \in Components : Unregister(c)
    \/ \E x, y \in Objs : Plus(x, y)
    \/ \E x, y \in Objs : IPlus(x, y)
    \/ \E x, y \in Objs : Minus(x, y)

SpecTree == Init /\ [][NextTree]_vars

(***************************************************************************)
(* SpecSend: a registry built on M by add and remove, and send on M.       *)
(***************************************************************************)
SendHandlers == {"f1", "f2", "l1", "lr"}
SendChannels == {NoChannel, <<"x">>}
\* (channel, target) of a send
SendRoutes == {<<<<"x">>, PyNone>>, <<<<"x">>, "*">>, <<<<"*">>, "*">>}

NextSend ==
    \/ \E h \in SendHandlers, c \in SendChannels : Add("M", h, c)
    \/ \E h \in SendHandlers, c \in SendChannels : Remove("M", h, c)
    \/ \E r \in SendRoutes : Send("M", Event("e1"), r[1], r[2])

SpecSend == Init /\ [][NextSend]_vars

(***************************************************************************)
(* SpecFlush: handlers are added to M, events are pushed onto M and         *)
(* flushed.                                                                *)
(***************************************************************************)
FlushHandlers == {"l2", "lp", "lr"}
\* (event name, channel, target) of a push
FlushRoutes == {<<"e1", <<"x">>, PyNone>>, <<"e2", <<"x">>, PyNone>>, <<"e3", <<"y">>, PyNone>>}

NextFlush ==
    \/ \E h \in FlushHandlers : Add("M", h, <<"x">>)
    \/ \E h \in FlushHandlers : Remove("M", h, <<"x">>)
    \/ \E r \in FlushRoutes : Push("M", Event(r[1]), r[2], r[3])
    \/ Flush("M")

SpecFlush == Init /\ [][NextFlush]_vars

(***************************************************************************)
(* SpecQueue: A attaches to and detaches from M, a handler is added to M,  *)
(* events are pushed, flushed and sent through M and through A.            *)
(***************************************************************************)
QueueCallers == {"M", "A"}
\* (event name, channel, target) of a push or send
QueueRoutes == {<<"e1", <<"x">>, PyNone>>, <<"e2", <<"x">>, "a">>}

NextQueue ==
    \/ Add("M", "lp", <<"x">>)
    \/ Register("A", "M")
    \/ Unregister("A")
    \/ \E o \in QueueCallers, r \in QueueRoutes : Push(o, Event(r[1]), r[2], r[3])
    \/ \E o \in QueueCallers : Flush(o)
    \/ \E o \in QueueCallers, r \in QueueRoutes : Send(o, Event(r[1]), r[2], r[3])

SpecQueue == Init /\ [][NextQueue]_vars

(***************************************************************************)
(* Claims about the registry (SpecReg)                                     *)
(***************************************************************************)
IsFilter(h) == HandlerDef[h].type = "filter"

\* No listener stands before a filter in s.
FiltersFirst(s) == \A i, j \in 1..Len(s) : i < j => ~(~IsFilter(s[i]) /\ IsFilter(s[j]))

\* Handlers of one type that are in s and in t stand in t in the order they
\* have in s, and a handler of t that is new stands after those of its type
\* that were in s.
OrderKept(s, t) ==
    s = t \/
    \A i, j \in 1..Len(t) :
        (i < j /\ IsFilter(t[i]) = IsFilter(t[j]) /\ InSeq(t[j], s)) =>
            \E m, n \in 1..Len(s) : m < n /\ s[m] = t[i] /\ s[n] = t[j]

\* C7: every channel list holds its filters before its listeners, and every
\* step keeps the handlers of one type in the order they were added in (a
\* handler just added goes behind the handlers of its type already there).
C7_ListOrder ==
    /\ \A o \in Objs : \A c \in DOMAIN channels[o] : FiltersFirst(channels[o][c])
    /\ [][\A o \in Objs : \A c \in DOMAIN channels'[o] :
             /\ FiltersFirst(channels'[o][c])
             /\ OrderKept(Get(channels[o], c), channels'[o][c])]_vars

\* A filter was just added to a list that held listeners and another filter:
\* the sort moved it in front of the listeners, behind the older filter.
C7_Witness ==
    /\ last.op = "add" /\ last.self = "M" /\ last.args = <<"f1", <<"x">>>>
    /\ <<"x">> \in DOMAIN channels["M"]
    /\ channels["M"][<<"x">>] = <<"f2", "f1", "l2", "l1">>

\* C9 (as claimed): a handler in the "*" list is in every result of
\* handlers(s), whatever s.
C9_GlobalInEveryResolution ==
    \A o \in Objs : \A h \in Handlers :
        InSeq(h, Get(channels[o], STAR)) =>
            \A s \in RegStrings :
                \A res \in handlers(channels[o], _handlers[o], s) : InSeq(h, res.seq)

\* C10 (as claimed): the handler set holds exactly the handlers that are in
\* some channel list.
C10_SetTracksLists ==
    \A o \in Objs : \A h \in Handlers :
        h \in _handlers[o] <=> \E c \in DOMAIN channels[o] : InSeq(h, channels[o][c])

(***************************************************************************)
(* Reading the log of the last call                                        *)
(***************************************************************************)
Reverse(s) == [i \in 1..Len(s) |-> s[Len(s) + 1 - i]]

IsPrefix(a, b) == Len(a) <= Len(b) /\ \A i \in 1..Len(a) : a[i] = b[i]

\* The send entries of a log, and the events they dispatched.
SendsOf(log) == SelectSeq(log, LAMBDA e : e.k = "send")
SentEvents(log) == [i \in 1..Len(SendsOf(log)) |-> SendsOf(log)[i].ev]

\* The handler calls made by the send whose entry is log[i]: the call entries
\* between it and the next send entry.
CallsOf(log, i) ==
    LET ends == {j \in (i+1)..Len(log) : log[j].k = "send"}
        n    == IF ends = {} THEN Len(log) + 1
                ELSE CHOOSE j \in ends : \A m \in ends : j <= m
    IN  SelectSeq(SubSeq(log, i + 1, n - 1), LAMBDA e : e.k = "call")

(***************************************************************************)
(* Claims about flush and send (SpecFlush, SpecSend)                       *)
(***************************************************************************)
\* C1: a push on a root appends the event to the end of its queue, so the
\* queue holds the pending events in push order, and a flush on a root
\* dispatches them in the reverse of that order.  A handler that raises ends the flush: the events dispatched up to
\* then are the first of that reverse order.
C1_FlushReverseOrder ==
    [][/\ (last'.op = "push" /\ manager[last'.self] = last'.self) =>
             _queue'[last'.self] =
                 Append(_queue[last'.self],
                        [last'.args[1] EXCEPT !.channel = last'.args[2], !.target = last'.args[3]])
       /\ (last'.op = "flush" /\ manager[last'.self] = last'.self) =>
             IF last'.exc = ""
             THEN SentEvents(last'.log) = Reverse(_queue[last'.self])
             ELSE IsPrefix(SentEvents(last'.log), Reverse(_queue[last'.self]))]_vars

\* e1, e2, e3 were pushed in that order and one flush sent e3, e2, e1.
C1_Witness ==
    /\ last.op = "flush" /\ last.exc = ""
    /\ Len(SendsOf(last.log)) = 3
    /\ [i \in 1..3 |-> SentEvents(last.log)[i].name] = <<"e3", "e2", "e1">>

\* C2: in every send, the handlers called are the first ones of the resolved
\* sequence, in its order; the handler at position p is called only if no
\* earlier one is a filter that returned a truthy value, and is called if
\* moreover no earlier one raised (a raise ends the send).  So a truthy
\* listener and a falsy filter stop nothing.
C2_FilterShortCircuit ==
    \A i \in 1..Len(last.log) :
        last.log[i].k = "send" =>
            LET seq   == last.log[i].seq
                calls == CallsOf(last.log, i)
                Stopped(j) == j <= Len(calls) /\ IsFilter(seq[j]) /\ calls[j].ret
                Raised(j)  == j <= Len(calls) /\ calls[j].raised
            IN  /\ Len(calls) <= Len(seq)
                /\ \A p \in 1..Len(calls) : calls[p].h = seq[p]
                /\ \A p \in 1..Len(seq) :
                      /\ p <= Len(calls) => ~\E j \in 1..(p-1) : Stopped(j)
                      /\ (~\E j \in 1..(p-1) : Stopped(j) \/ Raised(j)) => p <= Len(calls)

\* A send in which a falsy filter (f2) and a truthy listener (l1) ran and
\* dispatch went on, and a truthy filter (f1) ran and kept l1 from a second call.
C2_Witness ==
    /\ last.op = "send" /\ last.exc = ""
    /\ last.log[1].seq = <<"f2", "l1", "f1", "l1">>
    /\ Len(CallsOf(last.log, 1)) = 3

\* C8 (as claimed): in every send no listener is called before a filter.
C8_FiltersFirstOverall ==
    \A i \in 1..Len(last.log) :
        last.log[i].k = "send" =>
            FiltersFirst([p \in 1..Len(CallsOf(last.log, i)) |-> CallsOf(last.log, i)[p].h])

\* C8 (amended): a send on a key other than "*:*" runs the handlers list by
\* list: the resolved sequence is the "*" list followed by whole channel lists
\* of the root, each of which holds its filters before its listeners, and the
\* handlers are called in that order.
C8_FiltersFirstPerList ==
    \A i \in 1..Len(last.log) :
        (last.log[i].k = "send" /\ last.log[i].key # <<"*", "*">>) =>
            LET seq == last.log[i].seq
                d   == channels[last.log[i].at]
            IN  /\ \A c \in DOMAIN d : FiltersFirst(d[c])
                /\ \E K \in SUBSET (DOMAIN d) : \E o \in Orders(K) :
                      seq = Get(d, STAR) \o Flatten([n \in 1..Len(o) |-> d[o[n]]])
                /\ \A p \in 1..Len(CallsOf(last.log, i)) : CallsOf(last.log, i)[p].h = seq[p]

\* A send on "x" called the global listener l1 before the filter f2 of "x".
C8_Witness ==
    /\ last.op = "send" /\ last.args[2] = <<"x">> /\ last.args[3] = PyNone
    /\ last.log[1].seq = <<"l1", "f2", "l1">>
    /\ Len(CallsOf(last.log, 1)) = 3

(***************************************************************************)
(* Claims about the tree (SpecTree, SpecQueue)                             *)
(***************************************************************************)
\* C3 (as claimed): the manager references hold no cycle: from every object
\* they lead to an object that is its own manager.
C3_NoCycle == \A o \in Objs : root(manager, o) # Overflow

\* The last call was c.unregister(), directly or as x - c.
IsUnregister(l, c) ==
    \/ l.op = "unregister" /\ l.self = c
    \/ l.op = "__sub__" /\ l.args = <<c>>

\* Handler h is registered with object m: in its handler set or in a list.
Holds(hs, d, h) == h \in hs \/ \E c \in DOMAIN d : InSeq(h, d[c])

\* C4 (as claimed): when c.unregister() is called with c attached to another
\* object m, afterwards m holds none of c's tagged handlers and c is its own
\* manager.
C4_UnregisterComplete ==
    [][\A c \in Components :
          (IsUnregister(last', c) /\ manager[c] # c) =>
              /\ manager'[c] = c
              /\ \A i \in 1..Len(TaggedHandlers[c]) :
                    ~Holds(_handlers'[manager[c]], channels'[manager[c]], TaggedHandlers[c][i])]_vars

\* The last call was c.register(m), directly or as x + c or x += c with m the
\* manager of x before the call (mgr).
IsRegister(l, mgr, c, m) ==
    \/ l.op = "register" /\ l.self = c /\ l.args = <<m>>
    \/ l.op \in {"__add__", "__iadd__"} /\ l.args = <<c>> /\ mgr[l.self] = m

\* C6 (as claimed): a call c.register(m) with m another object dispatches
\* exactly one event, Registered on channel "registered" with target
\* c.channel, by send, after the adds of c's handlers to m, and appends
\* nothing to a queue; with m = c it dispatches nothing.
C6_RegisteredDispatched ==
    [][\A c \in Components : \A m \in Objs :
          IsRegister(last', manager, c, m) =>
              LET log   == last'.log
                  sends == {i \in 1..Len(log) : log[i].k = "send"}
              IN  IF m = c
                  THEN sends = {}
                  ELSE /\ Cardinality(sends) = 1
                       /\ \A i \in sends :
                             /\ log[i].ev = [name |-> "Registered", channel |-> <<"registered">>,
                                             target |-> ComponentChannel[c]]
                             /\ \A j \in 1..Len(log) : log[j].k = "add" => j < i
                             /\ [j \in 1..(i-1) |-> <<log[j].h, log[j].key>>] = RegisterAdds(c)
                       /\ _queue' = _queue]_vars

\* C5: a push, flush or send called on a component c whose manager m is a
\* root ends as the same call on m ends: the same objects after, the same
\* sends and handler calls, the same exception.  A push through c appends the
\* stamped event to m's queue and leaves c's queue and registry as they were.
C5_DelegatesToRoot ==
    [][\A c \in Components :
          (last'.self = c /\ manager[c] # c /\ manager[manager[c]] = manager[c]) =>
              LET m == manager[c]
                  a == last'.args
                  Same(o) == /\ manager' = o.w.manager
                             /\ _handlers' = o.w._handlers
                             /\ channels' = o.w.channels
                             /\ _queue' = o.w._queue
                             /\ last'.log = o.log
                             /\ last'.exc = o.exc
              IN  /\ last'.op = "push" =>
                        /\ Same(push(World, m, a[1], a[2], a[3]))
                        /\ _queue'[m] = Append(_queue[m], [a[1] EXCEPT !.channel = a[2], !.target = a[3]])
                        /\ _queue'[c] = _queue[c]
                        /\ channels'[c] = channels[c]
                        /\ _handlers'[c] = _handlers[c]
                  /\ last'.op = "flush" => \E o \in flush(World, m) : Same(o)
                  /\ last'.op = "send" => \E o \in send(World, m, a[1], a[2], a[3]) : Same(o)]_vars

\* A flush called on A, attached to the root M, sent two events of M's queue.
C5_Witness ==
    /\ last.op = "flush" /\ last.self = "A"
    /\ manager["A"] = "M" /\ manager["M"] = "M"
    /\ Len(SendsOf(last.log)) = 2

(***************************************************************************)
(* SpecResolve: one manager's registry with targeted and plain keys, and   *)
(* the resolutions of concrete and "*:c" strings against it.               *)
(***************************************************************************)
ResolveHandlers == {"f1", "l1"}
ResolveChannels == {NoChannel, <<"a", "*">>, <<"a", "x">>, <<"x">>}
ResolveQueries  == {<<"a", "x">>, <<"a", "y">>, <<"b", "x">>, <<"*", "x">>, <<"x">>}

NextResolve ==
    \/ \E h \in ResolveHandlers, c \in ResolveChannels : Add("M", h, c)
    \/ \E h \in ResolveHandlers, c \in ResolveChannels : Remove("M", h, c)
    \/ \E s \in ResolveQueries : HandlersOf("M", s)
    \/ \E c \in ResolveChannels : Add("M", "plain", c)

SpecResolve == Init /\ [][NextResolve]_vars

\* The keys of M's registry whose list holds handler h.
KeysHolding(h) == {k \in DOMAIN channels["M"] : InSeq(h, channels["M"][k])}

\* What the last step's handlers call yielded.
Yielded == last.log[1].seq

\* The number of times h occurs in sequence q.
Occurrences(h, q) == Cardinality({i \in 1..Len(q) : q[i] = h})

\* C11: for a concrete target t and channel c, handlers("t:c") yields the
\* "*" list, then the "t:*" list, then the "t:c" list, in that order and
\* with nothing left out or merged; a handler held only by "a:*" is yielded
\* for "a:x" and "a:y" and not for "b:x"; a handler held by both "t:*" and
\* "t:c" is yielded (at least) twice.
C11_ConcreteResolution ==
    (last.op = "handlers" /\ HasColon(last.args[1])
       /\ last.args[1][1] # "*" /\ last.args[1][2] # "*") =>
        LET s == last.args[1]
            d == channels["M"]
        IN  /\ Yielded = Get(d, STAR) \o Get(d, <<s[1], "*">>) \o Get(d, s)
            /\ \A h \in ResolveHandlers :
                   /\ KeysHolding(h) = {<<"a", "*">>} =>
                          (InSeq(h, Yielded) <=> s[1] = "a")
                   /\ {<<s[1], "*">>, s} \subseteq KeysHolding(h) =>
                          Occurrences(h, Yielded) >= 2

\* C11 witness: handlers("a:x") has yielded f1 twice, from "a:*" and from
\* "a:x", after l1 from "*".
C11_Witness ==
    /\ last.op = "handlers" /\ last.args[1] = <<"a", "x">>
    /\ Yielded = <<"l1", "f1", "f1">>
    /\ KeysHolding("f1") = {<<"a", "*">>, <<"a", "x">>}

\* C12: handlers("*:c") yields the "*" list followed by the lists of exactly
\* the keys that equal c or end with ":c", those lists in some order of the
\* keys; a handler held by the plain key x is yielded by handlers("*:x") and
\* by handlers("x"); a handler held only by "a:x" is yielded by
\* handlers("*:x") and not by handlers("x").
C12_WildcardTarget ==
    /\ (last.op = "handlers" /\ last.args[1] = <<"*", "x">>) =>
           LET d  == channels["M"]
               ks == {k \in DOMAIN d : k = <<"x">> \/ (Len(k) = 2 /\ k[2] = "x")}
           IN  /\ \E o \in Orders(ks) :
                      Yielded = Get(d, STAR)
                                  \o Flatten([i \in 1..Len(o) |-> d[o[i]]])
               /\ \A h \in ResolveHandlers :
                      (<<"x">> \in KeysHolding(h) \/ <<"a", "x">> \in KeysHolding(h))
                          => InSeq(h, Yielded)
    /\ (last.op = "handlers" /\ last.args[1] = <<"x">>) =>
           \A h \in ResolveHandlers :
               /\ <<"x">> \in KeysHolding(h) => InSeq(h, Yielded)
               /\ KeysHolding(h) = {<<"a", "x">>} => ~InSeq(h, Yielded)

\* C12 witness: handlers("*:x") has yielded l1 from the plain key "x" and f1
\* from "a:x", with nothing in "*".
C12_Witness ==
    /\ last.op = "handlers" /\ last.args[1] = <<"*", "x">>
    /\ KeysHolding("l1") = {<<"x">>}
    /\ KeysHolding("f1") = {<<"a", "x">>}
    /\ InSeq("l1", Yielded) /\ InSeq("f1", Yielded)

\* The key of the list that add(h, c) and remove(h, c) work on.
KeyOf(c) == IF c = NoChannel THEN STAR ELSE c

\* C13 (as claimed): add(h, c) with h already in c's list leaves that list,
\* every other list and the handler set as they were; and no list holds a
\* handler twice.
C13_AddIdempotent ==
    /\ [](\A o \in Objs : \A k \in DOMAIN channels[o] : \A h \in Handlers :
              Occurrences(h, channels[o][k]) <= 1)
    /\ [][(last'.op = "add" /\ last'.exc = ""
             /\ InSeq(last'.args[1], Get(channels[last'.self], KeyOf(last'.args[2])))) =>
              /\ channels' = channels
              /\ _handlers' = _handlers]_vars

\* C14: remove never fails, whether or not the handler or the channel is
\* known; remove(h) leaves h in no list and out of the handler set, and
\* remove(h, c) leaves h out of c's list; a remove that repeats the call
\* before it changes neither the lists nor the handler set.
C14_RemoveSafe ==
    /\ [](last.op = "remove" =>
            LET o == last.self
                h == last.args[1]
                c == last.args[2]
            IN  /\ last.exc = ""
                /\ ~InSeq(h, Get(channels[o], KeyOf(c)))
                /\ c = NoChannel =>
                       /\ h \notin _handlers[o]
                       /\ \A k \in DOMAIN channels[o] : ~InSeq(h, channels[o][k]))
    /\ [][(last.op = "remove" /\ last'.op = "remove"
             /\ last'.self = last.self /\ last'.args = last.args) =>
              /\ channels' = channels
              /\ _handlers' = _handlers]_vars

\* C14 witness: remove(f1) has taken f1 out of the "*" list and the "x" list,
\* both of which still hold l1.
C14_Witness ==
    /\ last.op = "remove" /\ last.self = "M" /\ last.args = <<"f1", NoChannel>>
    /\ {STAR, <<"x">>} \subseteq DOMAIN channels["M"]
    /\ channels["M"][STAR] = <<"l1">> /\ channels["M"][<<"x">>] = <<"l1">>
    /\ _handlers["M"] = {"l1"}

\* C15: add(h, c) with a handler whose type is neither "filter" nor
\* "listener" ends in InvalidHandler and leaves the handler set and every
\* list of every registry as they were.
C15_InvalidHandlerRejected ==
    [][(last'.op = "add"
          /\ HandlerDef[last'.args[1]].type \notin {"filter", "listener"}) =>
           /\ last'.exc = "InvalidHandler"
           /\ channels' = channels
           /\ _handlers' = _handlers]_vars

\* C15 witness: add(plain, "x") has ended in InvalidHandler on a registry
\* whose "x" list holds f1 and l1.
C15_Witness ==
    /\ last.op = "add" /\ last.args = <<"plain", <<"x">>>>
    /\ last.exc = "InvalidHandler"
    /\ <<"x">> \in DOMAIN channels["M"]
    /\ channels["M"][<<"x">>] = <<"f1", "l1">>
    /\ "plain" \notin _handlers["M"]

\* The events pushed during a call, in push order, read from its log.
PushesOf(log) == SelectSeq(log, LAMBDA e : e.k = "push")
PushedEvents(log) == [i \in 1..Len(PushesOf(log)) |-> PushesOf(log)[i].ev]

\* C16: when a handler raises during a flush on a root, the flush ends with
\* that error and the raising call is the last thing it did: no further
\* handler is called and no further event sent; the events of the batch not
\* yet sent are gone, the root's queue afterwards holding exactly the events
\* that handlers pushed before the error, which thus stay queued.
C16_FlushErrorLosesBatch ==
    [][(last'.op = "flush" /\ manager[last'.self] = last'.self
          /\ \E i \in 1..Len(last'.log) :
                 last'.log[i].k = "call" /\ last'.log[i].raised) =>
           LET log == last'.log
               o   == last'.self
               i   == CHOOSE j \in 1..Len(log) : log[j].k = "call" /\ log[j].raised
           IN  /\ last'.exc = "HandlerError"
               /\ i = Len(log)
               /\ Len(SendsOf(log)) <= Len(_queue[o])
               /\ IsPrefix(SentEvents(log), Reverse(_queue[o]))
               /\ _queue'[o] = PushedEvents(log)]_vars

\* C16 witness: a flush sent one event, lp pushed an event, then lr raised;
\* the queue holds the pushed event alone.
C16_Witness ==
    /\ last.op = "flush" /\ last.exc = "HandlerError"
    /\ Len(SendsOf(last.log)) = 1
    /\ Len(PushesOf(last.log)) = 1
    /\ last.log[Len(last.log)].k = "call" /\ last.log[Len(last.log)].h = "lr"
    /\ _queue["M"] = <<[PushedEvent EXCEPT !.channel = PushedChannel]>>

\* C17: a flush that ends without error sends exactly the events that were in
\* the root's queue when it started, each once; the events handlers push
\* meanwhile are not sent by it and make up the root's queue afterwards; a
\* flush of an empty queue calls no handler and changes nothing; and no flush
\* sends more events than were pending at its start, whatever handlers push.
C17_FlushOneBatch ==
    [][(last'.op = "flush" /\ root(manager, last'.self) # Overflow) =>
           LET r   == root(manager, last'.self)
               log == last'.log
           IN  /\ Len(SendsOf(log)) <= Len(_queue[r])
               /\ \A i \in 1..Len(SendsOf(log)) : SendsOf(log)[i].at = r
               /\ last'.exc = "" =>
                      /\ SentEvents(log) = Reverse(_queue[r])
                      /\ _queue'[r] = PushedEvents(log)
               /\ _queue[r] = <<>> =>
                      /\ log = <<>> /\ last'.exc = ""
                      /\ <<manager', _handlers', channels', _queue'>>
                           = <<manager, _handlers, channels, _queue>>]_vars

\* C17 witness: a flush called on A, attached to M, sent two pending events;
\* lp pushed an event during each send, and those two are now M's queue.
C17_Witness ==
    /\ last.op = "flush" /\ last.self = "A" /\ last.exc = ""
    /\ manager["A"] = "M"
    /\ Len(SendsOf(last.log)) = 2
    /\ Len(PushesOf(last.log)) = 2
    /\ _queue["M"] = PushedEvents(last.log)

(***************************************************************************)
(* Claims about the component tree (SpecTree, SpecQueue)                   *)
(***************************************************************************)
\* Handler h is in some list of the registry of object o.
InRegistry(o, h) == \E k \in DOMAIN channels[o] : InSeq(h, channels[o][k])

\* The last call was a register, made directly or through + or +=, that ended
\* without error.
RegisterDone == last.op \in {"register", "__add__", "__iadd__"} /\ last.exc = ""

\* C18 (as claimed): after a register call, in every tree (no cycle), every
\* handler of a component that is registered with the component's manager is
\* in the registry of the tree's root.
C18_HandlersAtRoot ==
    RegisterDone =>
        \A c \in Components :
            (manager[c] # c /\ root(manager, c) # Overflow) =>
                \A i \in 1..Len(TaggedHandlers[c]) :
                    InRegistry(manager[c], TaggedHandlers[c][i])
                        => InRegistry(root(manager, c), TaggedHandlers[c][i])

\* C19 (as claimed): an object that is not a root has no pending event.
C19_NonRootQueueEmpty ==
    \A o \in Objs : manager[o] # o => _queue[o] = <<>>

\* C20 (as claimed): the handlers of a component are in no registry but its
\* own and its manager's; and a register of a component that is attached to
\* an object m1, with a second object, leaves none of its handlers with m1.
C20_HandlersOnlyWithManager ==
    /\ [](\A c \in Components : \A o \in Objs \ {c, manager[c]} :
              \A i \in 1..Len(TaggedHandlers[c]) :
                  ~Holds(_handlers[o], channels[o], TaggedHandlers[c][i]))
    /\ [][\A c \in Components : \A m \in Objs :
             (IsRegister(last', manager, c, m) /\ last'.exc = ""
                /\ manager[c] \notin {c, m}) =>
                 \A i \in 1..Len(TaggedHandlers[c]) :
                     ~Holds(_handlers'[manager[c]], channels'[manager[c]],
                            TaggedHandlers[c][i])]_vars

(***************************************************************************)
(* Spec: every operation above, with the inputs of all the specifications   *)
(* above together.  The claims are checked under those, each of which      *)
(* holds the operations its claims are about.                              *)
(***************************************************************************)
Next == NextReg \/ NextTree \/ NextSend \/ NextFlush \/ NextQueue \/ NextResolve

Spec == Init /\ [][Next]_vars

====
